---- MODULE Spec2Model ----
(***************************************************************************)
(* thisismy: resource resolution (resolveResources, applySizeLimit) and    *)
(* the watch loop (startWatching, handleChange, askForReRun).              *)
(*                                                                         *)
(* The repository holds two live revisions of the program:                 *)
(*   rev = "js"   src/thisismy.js                                          *)
(*   rev = "v14"  src/unnamed/part_003, lines 1-1094 (thisismy v1.4.0)     *)
(* Both are modelled; rev is fixed when a run starts.                      *)
(*                                                                         *)
(* JavaScript strings are sequences of one-character strings, so that      *)
(* startsWith, includes, slice, path.relative, glob matching and ignore    *)
(* matching are computed on the characters as the code computes them.      *)
(***************************************************************************)
EXTENDS Integers, Sequences, FiniteSets, TLC

VARIABLES
  rev,              \* which revision of the program runs
  options,          \* the option bag: file, greedy, recursive, limit, tiny, watch,
                    \* interval, predefined
  ignoreFiles,      \* .thisismyignore and .gitignore of the working directory
  pc,               \* position of run()/main()
  resolved,         \* what resolveResources returned
  finalResources,   \* the resource list of the run
  ignoredDueToSize, \* applySizeLimit's second result
  exitCode,         \* -1 while running, then the process exit status
  output,           \* the resources whose text run()/main() has emitted
  content,          \* current raw content of every watched file and URL
  prevContentMap,   \* startWatching's Map: resource -> digest of its last content
  watchers,         \* local resources that have a change subscription
  seed,             \* position of startWatching's seeding loop
  timerArmed,       \* setInterval has been called
  timerInterval,    \* the period given to setInterval, in milliseconds
  mainListener,     \* the 'line' listener run()/main() installs after startWatching
  pendingEvents,    \* local resources with a raised, undelivered change event
  tasks,            \* suspended async calls: timer passes and handleChange calls
  terminated,       \* process.exit has been called
  nChanges,         \* content modifications so far
  nTicks,           \* timer ticks so far
  nPrompts,         \* confirmation prompts issued so far
  nReruns,          \* re-runs started so far
  lastAnswer        \* the last line delivered to a pending prompt

runVars == << options, ignoreFiles, pc, resolved, ignoredDueToSize, exitCode, output >>

watchVars == << content, prevContentMap, watchers, seed, timerArmed, timerInterval,
                mainListener,
                pendingEvents, tasks, terminated, nChanges, nTicks, nPrompts, nReruns,
                lastAnswer >>

vars == << rev, finalResources, runVars, watchVars >>

-----------------------------------------------------------------------------
(* Bounds of the model *)

MaxTokens == 2
MaxTasks == 3
MaxChanges == 2
MaxTicks == 1
MaxPollTicks == 2

-----------------------------------------------------------------------------
(* String literals of the code and of the modelled working directory *)

S_http == <<"h", "t", "t", "p">>
S_star == <<"*">>
S_starstar == <<"*", "*">>
S_dotslash == <<".", "/">>
S_starstarslash == <<"*", "*", "/">>
S_dotstarstarslash == <<".", "/", "*", "*", "/">>
S_slash == <<"/">>
S_cwdslash == <<"/", "w", "/">>

T_atxt == <<"a", ".", "t", "x", "t">>
T_abs_atxt == <<"/", "w", "/", "a", ".", "t", "x", "t">>
T_starlog == <<"*", ".", "l", "o", "g">>
T_readme == <<"R", "E", "A", "D", "M", "E", ".", "m", "d">>
T_star == <<"*">>
T_url1 == <<"h", "t", "t", "p", ":", "/", "/", "u", "1">>
T_url2 == <<"h", "t", "t", "p", ":", "/", "/", "u", "2">>
T_starjs == <<"*", ".", "j", "s">>
T_src == <<"s", "r", "c">>

P_debuglog == <<"d", "e", "b", "u", "g", ".", "l", "o", "g">>
P_implog == <<"i", "m", "p", "o", "r", "t", "a", "n", "t", ".", "l", "o", "g">>
P_env == <<".", "e", "n", "v">>
P_png == <<"p", "i", "c", ".", "p", "n", "g">>
P_srcfjs == <<"s", "r", "c", "/", "f", ".", "j", "s">>

R_starmd == <<"*", ".", "m", "d">>
R_notimp == <<"!", "i", "m", "p", "o", "r", "t", "a", "n", "t", ".", "l", "o", "g">>
R_nm == <<"n", "o", "d", "e", "_", "m", "o", "d", "u", "l", "e", "s", "/", "*", "*">>
R_pl == <<"p", "a", "c", "k", "a", "g", "e", "-", "l", "o", "c", "k", ".", "j", "s", "o", "n">>
R_dot == <<".", "*">>
R_anydot == <<"*", "*", "/", ".", "*">>

-----------------------------------------------------------------------------
(* JavaScript string and array primitives *)

\* String.prototype.startsWith
startsWith(s, p) ==
  Len(s) >= Len(p) /\ SubSeq(s, 1, Len(p)) = p

\* String.prototype.includes
includes(s, p) ==
  \E i \in 1..(Len(s) - Len(p) + 1) : SubSeq(s, i, i + Len(p) - 1) = p

\* String.prototype.slice(n)
slice(s, n) ==
  SubSeq(s, n + 1, Len(s))

\* a comparison that keeps the letter case
toLowerCase_keepsCase(s) ==
  s

\* String.prototype.toLowerCase on the letters the inputs hold
toLowerCase(s) ==
  LET lower == [ c \in {"Y", "X", "N", "O", "K", "M", "B"} |->
                   CASE c = "Y" -> "y" [] c = "X" -> "x" [] c = "N" -> "n" [] c = "O" -> "o"
                     [] c = "K" -> "k" [] c = "M" -> "m" [] c = "B" -> "b" ]
  IN  [ i \in 1..Len(s) |-> IF s[i] \in DOMAIN lower THEN lower[s[i]] ELSE s[i] ]

\* String.prototype.endsWith
endsWith(s, p) ==
  Len(s) >= Len(p) /\ SubSeq(s, Len(s) - Len(p) + 1, Len(s)) = p

\* String.prototype.split('/'): the segments between the separators
RECURSIVE splitSlash(_)
splitSlash(s) ==
  IF ~ (\E i \in 1..Len(s) : s[i] = "/") THEN << s >>
  ELSE LET i == CHOOSE k \in 1..Len(s) : s[k] = "/" /\ \A j \in 1..(k - 1) : s[j] # "/"
       IN  << SubSeq(s, 1, i - 1) >> \o splitSlash(SubSeq(s, i + 1, Len(s)))

\* Array.from(new Set(xs)): first occurrences, in insertion order
RECURSIVE setOrder(_)
setOrder(xs) ==
  IF xs = << >> THEN << >>
  ELSE LET front == setOrder(SubSeq(xs, 1, Len(xs) - 1))
           last == xs[Len(xs)]
       IN  IF \E i \in 1..Len(front) : front[i] = last THEN front
           ELSE Append(front, last)

\* xs.push(...ys) over a sequence of arrays
RECURSIVE flatten(_)
flatten(xss) ==
  IF xss = << >> THEN << >> ELSE Head(xss) \o flatten(Tail(xss))

-----------------------------------------------------------------------------
(* The working directory /w, in directory-enumeration order *)

Entries ==
  << [path |-> T_atxt,     kind |-> "file", size |-> 2],
     [path |-> T_readme,   kind |-> "file", size |-> 3],
     [path |-> P_debuglog, kind |-> "file", size |-> 1],
     [path |-> P_implog,   kind |-> "file", size |-> 0],
     [path |-> P_env,      kind |-> "file", size |-> 1],
     [path |-> P_png,      kind |-> "file", size |-> 3],
     [path |-> T_src,      kind |-> "dir",  size |-> 3],
     [path |-> P_srcfjs,   kind |-> "file", size |-> 1] >>

\* collapse runs of '/' (path normalisation inside path.relative)
RECURSIVE collapseSlashes(_)
collapseSlashes(s) ==
  IF Len(s) < 2 THEN s
  ELSE IF s[1] = "/" /\ s[2] = "/" THEN collapseSlashes(Tail(s))
  ELSE << s[1] >> \o collapseSlashes(Tail(s))

\* path.relative(process.cwd(), f)
pathRelative(f) ==
  LET n == collapseSlashes(f)
  IN  IF startsWith(n, S_cwdslash) THEN slice(n, Len(S_cwdslash))
      ELSE IF startsWith(n, S_dotslash) THEN slice(n, 2)
      ELSE n

\* the directory entry a path names, as a set of at most one entry
entryOf(f) ==
  { i \in 1..Len(Entries) : Entries[i].path = pathRelative(f) }

\* fs.existsSync
existsSync(f) ==
  entryOf(f) # {}

\* fs.lstatSync(f).isFile(), false when lstatSync throws
lstatIsFile(f) ==
  \E i \in entryOf(f) : Entries[i].kind = "file"

-----------------------------------------------------------------------------
(* glob: globSync(pattern, { dot, ignore }) *)

\* one path segment against one pattern segment; '*' matches any run of characters
RECURSIVE wildMatch(_, _)
wildMatch(p, s) ==
  IF p = << >> THEN s = << >>
  ELSE IF Head(p) = "*"
       THEN \E k \in 0..Len(s) : wildMatch(Tail(p), SubSeq(s, k + 1, Len(s)))
       ELSE s # << >> /\ Head(s) = Head(p) /\ wildMatch(Tail(p), Tail(s))

\* a name that starts with '.' is matched only by a pattern segment that starts
\* with '.', unless dot is set
segMatch(p, s, dot) ==
  /\ s # << >>
  /\ wildMatch(p, s)
  /\ (dot \/ Head(s) # "." \/ (p # << >> /\ Head(p) = "."))

\* a segmented path against a segmented pattern; '**' spans zero or more directories
RECURSIVE globSegs(_, _, _)
globSegs(ps, ss, dot) ==
  IF ps = << >> THEN ss = << >>
  ELSE IF Head(ps) = S_starstar
       THEN \/ globSegs(Tail(ps), ss, dot)
            \/ /\ ss # << >>
               /\ Head(ss) # << >>
               /\ (dot \/ Head(Head(ss)) # ".")
               /\ globSegs(ps, Tail(ss), dot)
       ELSE /\ ss # << >>
            /\ segMatch(Head(ps), Head(ss), dot)
            /\ globSegs(Tail(ps), Tail(ss), dot)

\* the ignore option of glob: plain glob patterns in dot mode, no negation
globIgnored(path, ignorePatterns) ==
  \E i \in 1..Len(ignorePatterns) :
     globSegs(splitSlash(ignorePatterns[i]), splitSlash(path), TRUE)

\* globSync: the matching entries in enumeration order; an absolute pattern
\* yields absolute paths, any other pattern yields bare relative paths
globSync(pattern, dot, ignorePatterns) ==
  LET abs == startsWith(pattern, S_slash)
      inCwd == startsWith(pattern, S_cwdslash)
      rel == IF abs THEN (IF inCwd THEN slice(pattern, Len(S_cwdslash)) ELSE << >>)
             ELSE IF startsWith(pattern, S_dotslash) THEN slice(pattern, 2)
             ELSE pattern
      hit(e) == /\ rel # << >>
                /\ globSegs(splitSlash(rel), splitSlash(e.path), dot)
                /\ ~ globIgnored(e.path, ignorePatterns)
      hits == SelectSeq(Entries, hit)
  IN  [ i \in 1..Len(hits) |-> IF abs THEN S_cwdslash \o hits[i].path ELSE hits[i].path ]

-----------------------------------------------------------------------------
(* the ignore package: gitignore rules, ig.add(...) and ig.ignores(path) *)

\* a rule line is a pattern unless it is blank or a comment
isRule(line) ==
  line # << >> /\ Head(line) # "#"

isNegative(line) ==
  Head(line) = "!"

rulePattern(line) ==
  IF isNegative(line) THEN Tail(line) ELSE line

\* an anchored rule against a segmented path; a trailing '**' needs something inside
RECURSIVE gitSegs(_, _)
gitSegs(ps, ss) ==
  IF ps = << >> THEN ss = << >>
  ELSE IF Head(ps) = S_starstar
       THEN IF Len(ps) = 1 THEN ss # << >>
            ELSE gitSegs(Tail(ps), ss) \/ (ss # << >> /\ gitSegs(ps, Tail(ss)))
       ELSE /\ ss # << >>
            /\ wildMatch(Head(ps), Head(ss))
            /\ gitSegs(Tail(ps), Tail(ss))

\* a rule without '/' matches the last name of the path at any depth;
\* a rule with '/' is anchored at the working directory
ruleMatches(line, path) ==
  LET pat == rulePattern(line)
      segs == splitSlash(path)
  IN  IF includes(pat, S_slash)
      THEN gitSegs(splitSlash(IF startsWith(pat, S_slash) THEN Tail(pat) ELSE pat), segs)
      ELSE wildMatch(pat, segs[Len(segs)])

\* rules are tried in the order added: the last rule that matches decides
testOne(rules, path) ==
  LET matching == { i \in 1..Len(rules) : isRule(rules[i]) /\ ruleMatches(rules[i], path) }
  IN  /\ matching # {}
      /\ ~ isNegative(rules[CHOOSE i \in matching : \A j \in matching : j <= i])

joinSlash(segs) ==
  LET RECURSIVE j(_)
      j(k) == IF k = 1 THEN segs[1] ELSE j(k - 1) \o S_slash \o segs[k]
  IN  j(Len(segs))

\* ig.ignores(path): a path below an ignored directory is ignored and
\* cannot be re-included; otherwise the rules are tested on the path itself
RECURSIVE igIgnoresSegs(_, _)
igIgnoresSegs(rules, segs) ==
  IF Len(segs) > 1 /\ igIgnoresSegs(rules, SubSeq(segs, 1, Len(segs) - 1)) THEN TRUE
  ELSE testOne(rules, joinSlash(segs))

igIgnores(rules, path) ==
  igIgnoresSegs(rules, splitSlash(path))

-----------------------------------------------------------------------------
(* default ignore rules *)

defaultBinaryExtensions ==
  << <<".", "p", "n", "g">>,
     <<".", "j", "p", "g">>,
     <<".", "j", "p", "e", "g">>,
     <<".", "g", "i", "f">>,
     <<".", "p", "d", "f">>,
     <<".", "z", "i", "p">>,
     <<".", "r", "a", "r">>,
     <<".", "7", "z">>,
     <<".", "e", "x", "e">>,
     <<".", "d", "l", "l">>,
     <<".", "b", "i", "n">>,
     <<".", "m", "p", "4">>,
     <<".", "m", "p", "3">>,
     <<".", "w", "a", "v">>,
     <<".", "m", "o", "v">>,
     <<".", "a", "v", "i">> >>

defaultIgnores ==
  << R_nm, R_pl, R_dot, R_anydot >>
    \o [ i \in 1..Len(defaultBinaryExtensions) |-> S_star \o defaultBinaryExtensions[i] ]

\* v1.4.0 hands glob only these of the default rules
globIgnorePatterns ==
  SelectSeq(defaultIgnores,
            LAMBDA p : includes(p, <<"n","o","d","e","_","m","o","d","u","l","e","s">>)
                       \/ includes(p, R_anydot) \/ startsWith(p, R_dot))

\* the lines of the one ignore file that is read: .thisismyignore if it exists,
\* else .gitignore if it exists, else none
\* a resolution that reads the rules of both ignore files
ignoreFileLines_both(files) ==
  files.thisismyignore.lines \o files.gitignore.lines

ignoreFileLines(files) ==
  IF files.thisismyignore.exists THEN files.thisismyignore.lines
  ELSE IF files.gitignore.exists THEN files.gitignore.lines
  ELSE << >>

-----------------------------------------------------------------------------
(* resolveResources *)

\* a token is a URL when it starts with 'http'
isUrl(p) ==
  startsWith(p, S_http)

\* with -r, a pattern without '**' is made to search all subdirectories
rewritePattern(pattern, recursive) ==
  IF recursive /\ ~ includes(pattern, S_starstar)
  THEN IF startsWith(pattern, S_dotslash) THEN S_dotstarstarslash \o slice(pattern, 2)
       ELSE IF ~ startsWith(pattern, S_starstarslash) THEN S_starstarslash \o pattern
       ELSE pattern
  ELSE pattern

\* thisismy.js: one token, no wildcard, not a URL
isSingleExactFile(inputPaths) ==
  LET hasWildcard == \E i \in 1..Len(inputPaths) : includes(inputPaths[i], S_star)
      multipleFiles == Len(inputPaths) > 1
  IN  ~ multipleFiles /\ ~ hasWildcard /\ Len(inputPaths) = 1 /\ ~ isUrl(inputPaths[1])

\* thisismy.js: the patterns handed to glob's ignore option
ignorePatterns_js(opt, files) ==
  (IF ~ opt.greedy THEN defaultIgnores ELSE << >>) \o ignoreFileLines(files)

\* thisismy.js: what one token contributes to finalResources
expandToken_js(pth, opt, files) ==
  IF isUrl(pth) THEN << pth >>
  ELSE globSync(rewritePattern(pth, opt.recursive), opt.greedy, ignorePatterns_js(opt, files))

\* thisismy.js: duplicates are removed, then every entry is made relative
dedupeRelative_js(collected) ==
  LET unique == setOrder(collected)
  IN  [ i \in 1..Len(unique) |-> pathRelative(unique[i]) ]

\* thisismy.js resolveResources: the finalResources it returns
resolveResources_js(opt, files) ==
  LET inputPaths == opt.file
  IN  IF isSingleExactFile(inputPaths) /\ ~ opt.greedy
      THEN IF existsSync(inputPaths[1]) \/ isUrl(inputPaths[1])
           THEN << inputPaths[1] >> ELSE << >>
      ELSE LET collected == flatten([ i \in 1..Len(inputPaths) |->
                                        expandToken_js(inputPaths[i], opt, files) ])
           IN  SelectSeq(dedupeRelative_js(collected), lstatIsFile)

\* v1.4.0: the rules of the ignore instance; none in greedy mode
igRules_v14(opt, files) ==
  IF ~ opt.greedy THEN defaultIgnores \o ignoreFileLines(files) ELSE << >>

\* v1.4.0: what one path token contributes to allMatchedFiles
expandToken_v14(pattern, opt) ==
  IF isUrl(pattern) THEN << >>
  ELSE globSync(rewritePattern(pattern, opt.recursive), TRUE,
                IF opt.greedy THEN << >> ELSE globIgnorePatterns)

\* v1.4.0: a glob match is kept when no rule ignores it and it is a regular file
keepMatch_v14(p, opt, files) ==
  LET relativePath == pathRelative(p)
  IN  /\ relativePath # << >>
      /\ ~ (~ opt.greedy /\ igIgnores(igRules_v14(opt, files), relativePath))
      /\ lstatIsFile(p)

\* v1.4.0 resolveResources: a Set seeded with the URLs, then the kept matches
resolveResources_v14(opt, files) ==
  LET inputPaths == opt.file
      finalResourcesInput == SelectSeq(inputPaths, isUrl)
      allMatchedFiles == flatten([ i \in 1..Len(inputPaths) |->
                                     expandToken_v14(inputPaths[i], opt) ])
      uniqueMatchedFiles == setOrder(allMatchedFiles)
      kept == SelectSeq(uniqueMatchedFiles, LAMBDA p : keepMatch_v14(p, opt, files))
  IN  setOrder(finalResourcesInput \o [ i \in 1..Len(kept) |-> pathRelative(kept[i]) ])

-----------------------------------------------------------------------------
(* applySizeLimit (v1.4.0) *)

\* fs.statSync(file).size of an existing entry
statSize(f) ==
  Entries[CHOOSE i \in entryOf(f) : TRUE].size

\* mutant: the ceiling made inclusive
tooLarge_inclusive(size, sizeLimitBytes) ==
  size >= sizeLimitBytes

\* st.size > sizeLimitBytes
tooLarge(size, sizeLimitBytes) ==
  size > sizeLimitBytes

\* limit is [defined |-> FALSE] for the no-limit value (undefined)
applySizeLimit(filePaths, limit) ==
  IF ~ limit.defined
  THEN [finalResourcesFiltered |-> filePaths, ignoredDueToSize |-> << >>]
  ELSE LET big(f) == ~ isUrl(f) /\ existsSync(f) /\ tooLarge(statSize(f), limit.bytes)
           keep(f) == isUrl(f) \/ (existsSync(f) /\ ~ tooLarge(statSize(f), limit.bytes))
           skipped == SelectSeq(filePaths, big)
       IN  [finalResourcesFiltered |-> SelectSeq(filePaths, keep),
            ignoredDueToSize |-> [ i \in 1..Len(skipped) |->
                                     [filePath |-> skipped[i], size |-> statSize(skipped[i])] ]]

-----------------------------------------------------------------------------
(* parseSizeLimit (v1.4.0) *)

\* options.limit when --limit is not given
NoArg == << "undefined" >>

NoLimit == [defined |-> FALSE, bytes |-> 0]

KB == 1024

DefaultLimit == [defined |-> TRUE, bytes |-> KB * KB]

Digits == [ c \in {"0", "1", "2", "3", "4", "5", "6", "7", "8", "9"} |->
              CASE c = "0" -> 0 [] c = "1" -> 1 [] c = "2" -> 2 [] c = "3" -> 3 [] c = "4" -> 4
                [] c = "5" -> 5 [] c = "6" -> 6 [] c = "7" -> 7 [] c = "8" -> 8 [] c = "9" -> 9 ]

\* /^\d+$/
isDigits(s) ==
  s # << >> /\ \A i \in 1..Len(s) : s[i] \in DOMAIN Digits

\* the number a string of digits writes
RECURSIVE digitsValue(_)
digitsValue(s) ==
  IF s = << >> THEN 0 ELSE 10 * digitsValue(SubSeq(s, 1, Len(s) - 1)) + Digits[s[Len(s)]]

RECURSIVE pow10(_)
pow10(n) ==
  IF n = 0 THEN 1 ELSE 10 * pow10(n - 1)

\* /^\d+(?:\.\d+)?$/ and parseFloat: the number as numerator and denominator,
\* den = 0 when the string is no number
parseNumber(s) ==
  IF isDigits(s) THEN [num |-> digitsValue(s), den |-> 1]
  ELSE IF \E i \in 1..Len(s) : /\ s[i] = "."
                               /\ isDigits(SubSeq(s, 1, i - 1))
                               /\ isDigits(SubSeq(s, i + 1, Len(s)))
  THEN LET i == CHOOSE k \in 1..Len(s) : s[k] = "."
       IN  [num |-> digitsValue(SubSeq(s, 1, i - 1) \o SubSeq(s, i + 1, Len(s))),
            den |-> pow10(Len(s) - i)]
  ELSE [num |-> 0, den |-> 0]

\* Math.round(val * factor) for val = num / den
roundTimes(val, factor) ==
  (2 * val.num * factor + val.den) \div (2 * val.den)

\* a parseSizeLimit that takes a number without a unit as bytes
parseSizeLimit_bareBytes(limitArg) ==
  IF limitArg = NoArg \/ limitArg = << >> THEN DefaultLimit
  ELSE IF toLowerCase(limitArg) = << "n", "o" >> THEN NoLimit
  ELSE IF isDigits(limitArg) THEN [defined |-> TRUE, bytes |-> digitsValue(limitArg)]
  ELSE DefaultLimit

parseSizeLimit(limitArg) ==
  IF limitArg = NoArg \/ limitArg = << >> THEN DefaultLimit
  ELSE IF toLowerCase(limitArg) = << "n", "o" >> THEN NoLimit
  ELSE LET l == toLowerCase(limitArg)
           unit == IF endsWith(l, << "k", "b" >>) THEN "kb"
                   ELSE IF endsWith(l, << "m", "b" >>) THEN "mb" ELSE "none"
           val == parseNumber(IF unit = "none" THEN l ELSE SubSeq(l, 1, Len(l) - 2))
       IN  IF val.den = 0 THEN DefaultLimit
           ELSE IF unit = "kb" THEN [defined |-> TRUE, bytes |-> roundTimes(val, KB)]
           ELSE [defined |-> TRUE, bytes |-> roundTimes(val, KB * KB)]

-----------------------------------------------------------------------------
(* The inputs of a run *)

Tokens ==
  { T_atxt, T_abs_atxt, T_starlog, T_readme, T_star, T_url1, T_starjs, T_src }

TokenLists ==
  UNION { [1..n -> Tokens] : n \in 1..MaxTokens }

NoFile == [exists |-> FALSE, lines |-> << >>]

IgnoreConfigs ==
  { [thisismyignore |-> NoFile, gitignore |-> NoFile],
    [thisismyignore |-> NoFile,
     gitignore |-> [exists |-> TRUE, lines |-> << T_starlog, R_notimp >>]],
    [thisismyignore |-> [exists |-> TRUE, lines |-> << R_starmd >>],
     gitignore |-> [exists |-> TRUE, lines |-> << T_starlog >>]] }

A_no == << "n", "o" >>
A_NO == << "N", "O" >>
A_0 == << "0" >>
A_2bytes == << "0", ".", "0", "0", "2", "k", "b" >>
A_1kb == << "1", "k", "b" >>
A_2KB == << "2", "K", "B" >>
A_1mb == << "1", "m", "b" >>
A_3 == << "3" >>
A_x == << "x" >>
A_2gb == << "2", "g", "b" >>
A_sp1kb == << " ", "1", "k", "b" >>

\* the --limit arguments tried with every token list: none, a ceiling of 0 bytes
\* and one of 2 bytes
CoreLimitArgs ==
  { A_no, A_0, A_2bytes }

LimitArgs ==
  { NoArg, A_no, A_NO, A_0, A_2bytes, A_1kb, A_2KB, A_1mb, A_3, A_x, A_2gb, A_sp1kb }

\* the option sets of a run: every token list with the core ceilings, and one
\* pattern with every --limit argument
T_missing == << "n", "o", "p", "e" >>
T_dotstarjs == << ".", "/", "*", ".", "j", "s" >>
T_deepjs == << "*", "*", "/", "*", ".", "j", "s" >>

\* options.interval (type Number): left out, not a number, or a number of
\* minutes, held in half minutes so that 0.5 and 1.5 are values
I_absent == [kind |-> "undefined", halves |-> 0]
I_nan == [kind |-> "NaN", halves |-> 0]

\* 40000 minutes, more milliseconds than a timer delay can hold
HugeHalves == 80000

IntervalArgs ==
  { I_absent, I_nan }
    \cup { [kind |-> "number", halves |-> h] : h \in {-2, 0, 1, 2, 3, 14, HugeHalves} }

\* no --predefined list
NoList == [given |-> FALSE, readable |-> FALSE, lines |-> << >>]

L_comment == << "#", " ", "c" >>
L_missing_sp == << " ", "n", "o", "p", "e", " " >>

\* the lines of the --predefined list files
ListFiles ==
  { << T_atxt >>,
    << L_missing_sp, T_atxt >>,
    << L_comment, << >> >>,
    << T_missing >>,
    << L_comment, T_src, T_url1, T_atxt, T_atxt >>,
    << T_starjs, T_readme >> }

PredefinedLists ==
  { [given |-> TRUE, readable |-> TRUE, lines |-> l] : l \in ListFiles }
    \cup { [given |-> TRUE, readable |-> FALSE, lines |-> << >>] }

\* the option sets of a run: every token list with the core ceilings; one pattern
\* with every --limit argument; runs in watch mode with every --interval argument;
\* runs with a --predefined list; patterns that start with './' or hold '**', with
\* and without --recursive
RunOptions ==
  [file : TokenLists, greedy : BOOLEAN, recursive : BOOLEAN, limit : CoreLimitArgs,
   tiny : {FALSE}, watch : {FALSE}, interval : {I_absent}, predefined : {NoList}]
    \cup [file : {<< T_star >>}, greedy : {FALSE}, recursive : {FALSE}, limit : LimitArgs,
          tiny : {FALSE}, watch : {FALSE}, interval : {I_absent}, predefined : {NoList}]
    \cup [file : {<< T_missing >>, << T_starjs >>, << T_atxt >>, << T_url1, T_atxt >>},
          greedy : {FALSE}, recursive : {FALSE}, limit : {A_no, A_0}, tiny : {FALSE},
          watch : {TRUE}, interval : IntervalArgs, predefined : {NoList}]
    \cup [file : {<< T_star >>}, greedy : {FALSE}, recursive : {FALSE},
          limit : {NoArg, A_no, A_0}, tiny : {FALSE}, watch : {FALSE},
          interval : {I_absent}, predefined : PredefinedLists]
    \cup [file : {<< T_dotstarjs >>, << T_deepjs >>, << T_dotstarjs, T_starjs >>},
          greedy : {FALSE}, recursive : BOOLEAN, limit : {A_no}, tiny : {FALSE},
          watch : {FALSE}, interval : {I_absent}, predefined : {NoList}]

-----------------------------------------------------------------------------
(* Values of the watch session *)

C_hello == <<"h", "e", "l", "l", "o">>
C_hello_sp == <<"h", "e", "l", "l", "o", " ">>

Contents == { C_hello, C_hello_sp }

\* the content of r that the one-shot processing read and emitted
processedContent(r) == C_hello

\* the state of a resource that cannot be read or fetched: a deleted file, a host
\* that does not answer
Unavailable == << "unavailable" >>

NoAnswer == [given |-> FALSE, line |-> << >>]

\* prevContentMap.get(r) of a resource that was never set
NoHash == [sha256 |-> << "undefined" >>]

\* a call in progress: where it is suspended, what started it, the resource it
\* evaluates, the URL a re-run fetches, the fingerprint that was stored for the
\* resource when askForReRun was called, and what the page held when the fetch
\* the call awaits was sent
FreeTask ==
  [pc |-> "free", kind |-> "none", res |-> 0, rr |-> 0, atAsk |-> NoHash, sent |-> << >>]

\* no watch session: the state of the watch variables outside watch mode
WatchIdle ==
  /\ content = << >>
  /\ prevContentMap = << >>
  /\ watchers = {}
  /\ seed = [pc |-> "none", idx |-> 0]
  /\ timerArmed = FALSE
  /\ timerInterval = 0
  /\ mainListener = FALSE
  /\ pendingEvents = {}
  /\ tasks = [ t \in 1..MaxTasks |-> FreeTask ]
  /\ terminated = FALSE
  /\ nChanges = 0
  /\ nTicks = 0
  /\ nPrompts = 0
  /\ nReruns = 0
  /\ lastAnswer = NoAnswer

-----------------------------------------------------------------------------
(* run() / main(): resolve, limit, process *)

Init ==
  /\ rev \in {"js", "v14"}
  /\ options \in RunOptions
  /\ rev = "js" => (options.limit = A_no /\ ~ options.predefined.given)
  /\ ignoreFiles \in IgnoreConfigs
  /\ pc = "resolve"
  /\ resolved = << >>
  /\ finalResources = << >>
  /\ ignoredDueToSize = << >>
  /\ exitCode = -1
  /\ output = << >>
  /\ WatchIdle

\* String.prototype.trim
RECURSIVE trim(_)
trim(s) ==
  IF s = << >> THEN s
  ELSE IF Head(s) = " " THEN trim(Tail(s))
  ELSE IF s[Len(s)] = " " THEN trim(SubSeq(s, 1, Len(s) - 1))
  ELSE s

\* the list-file lines taken without trimming
linesFromPredefined_untrimmed(fileLines) ==
  SelectSeq(fileLines, LAMBDA x : Len(x) > 0 /\ ~ startsWith(x, << "#" >>))

\* v1.4.0 main(), lines 186-189: the lines of the list file, trimmed, without the
\* empty ones and the comments
linesFromPredefined(fileLines) ==
  SelectSeq([ i \in 1..Len(fileLines) |-> trim(fileLines[i]) ],
            LAMBDA x : Len(x) > 0 /\ ~ startsWith(x, << "#" >>))

\* an empty check that never finds the list empty
nothingFound_never(list) ==
  FALSE

\* finalResources.length === 0
nothingFound(list) ==
  Len(list) = 0

\* thisismy.js run(), lines 126-133: resolve; nothing found ends the run
Resolve_js ==
  /\ pc = "resolve" /\ rev = "js"
  /\ resolved' = resolveResources_js(options, ignoreFiles)
  /\ finalResources' = resolved'
  /\ IF nothingFound(finalResources')
     THEN pc' = "done" /\ exitCode' = 0
     ELSE pc' = "process" /\ UNCHANGED exitCode
  /\ UNCHANGED << rev, options, ignoreFiles, ignoredDueToSize, output, watchVars >>

\* v1.4.0 main(), lines 180-198 and 252-290: with --predefined the lines of the
\* list file are the resources (an unreadable file or one without a valid line is
\* reported and main returns); otherwise resolveResources; then the Set
Resolve_v14 ==
  /\ pc = "resolve" /\ rev = "v14"
  /\ IF options.predefined.given
     THEN IF ~ options.predefined.readable
             \/ linesFromPredefined(options.predefined.lines) = << >>
          THEN /\ pc' = "done"
               /\ exitCode' = 0
               /\ UNCHANGED << resolved, finalResources >>
          ELSE /\ resolved' = setOrder(linesFromPredefined(options.predefined.lines))
               /\ finalResources' = resolved'
               /\ pc' = "limit"
               /\ UNCHANGED exitCode
     ELSE /\ resolved' = setOrder(resolveResources_v14(options, ignoreFiles))
          /\ finalResources' = resolved'
          /\ pc' = "limit"
          /\ UNCHANGED exitCode
  /\ UNCHANGED << rev, options, ignoreFiles, ignoredDueToSize, output, watchVars >>

\* the default of 5 minutes, in half minutes
DefaultInterval == 10

\* run()/main(): if (!options.interval || options.interval < 1) options.interval = 5;
\* the result in half minutes
effectiveInterval(arg) ==
  IF arg.kind # "number" \/ arg.halves = 0 \/ arg.halves < 2
  THEN DefaultInterval ELSE arg.halves

\* startWatching: options.interval * 60 * 1000 milliseconds, held in whole
\* seconds (the milliseconds of HugeHalves exceed 32-bit integers)
intervalSeconds ==
  effectiveInterval(options.interval) * 30

\* the largest delay a timer takes, 2^31 - 1 milliseconds
TIMEOUT_MAX == 2147483647

\* setInterval(callback, delay): a delay above TIMEOUT_MAX or below 1 is set to 1;
\* the delay comes in seconds and the period that is used is in milliseconds
setIntervalDelay(seconds) ==
  IF seconds > TIMEOUT_MAX \div 1000 \/ seconds < 1 THEN 1 ELSE seconds * 1000

\* v1.4.0 main(), lines 217-218: the ceiling the run works with
sizeLimitInfo ==
  parseSizeLimit(options.limit)

\* v1.4.0 main(), lines 360-375: apply the size limit; nothing left ends the run
SizeLimit ==
  /\ pc = "limit"
  /\ LET r == applySizeLimit(finalResources, sizeLimitInfo)
     IN  /\ finalResources' = r.finalResourcesFiltered
         /\ ignoredDueToSize' = r.ignoredDueToSize
  /\ IF nothingFound(finalResources')
     THEN pc' = "done" /\ exitCode' = 0
     ELSE pc' = "process" /\ UNCHANGED exitCode
  /\ UNCHANGED << rev, options, ignoreFiles, resolved, output, watchVars >>

\* reading a resource: thisismy.js lets readFileSync throw (a directory, a missing
\* file), which rejects run() and ends the process with status 1; v1.4.0 catches
readThrows(r) ==
  rev = "js" /\ ~ isUrl(r) /\ ~ lstatIsFile(r)

\* processFilesAndUrls over the final list and the emission of its text; then
\* either the end of run()/main() or, in watch mode, the call of startWatching
Process ==
  /\ pc = "process"
  /\ IF \E i \in 1..Len(finalResources) : readThrows(finalResources[i])
     THEN /\ pc' = "done"
          /\ exitCode' = 1
          /\ UNCHANGED << output, watchVars >>
     ELSE /\ output' = finalResources
          /\ IF options.watch
             THEN /\ pc' = "watch"
                  /\ content' = [ r \in { finalResources[i] : i \in 1..Len(finalResources) }
                                     |-> processedContent(r) ]
                  /\ prevContentMap' = [ r \in DOMAIN content' |-> NoHash ]
                  /\ seed' = [pc |-> "start", idx |-> 1]
                  /\ UNCHANGED << exitCode, watchers, timerArmed, timerInterval, mainListener,
                                  pendingEvents, tasks, terminated, nChanges, nTicks,
                                  nPrompts, nReruns, lastAnswer >>
             ELSE /\ pc' = "done"
                  /\ exitCode' = 0
                  /\ UNCHANGED watchVars
  /\ UNCHANGED << rev, options, ignoreFiles, resolved, finalResources, ignoredDueToSize >>

Next ==
  \/ Resolve_js
  \/ Resolve_v14
  \/ SizeLimit
  \/ Process

Spec == Init /\ [][Next]_vars

-----------------------------------------------------------------------------
(* Watch mode: startWatching, handleChange, askForReRun, promptUser *)

\* crypto sha256 digest: distinct contents have distinct digests
hashContent(str) ==
  [sha256 |-> str]

\* a getContent that applies the whitespace trimming of the tiny option
getRawResourceContent_tiny(r) ==
  IF options.tiny /\ content[r] # << >> /\ content[r][Len(content[r])] = " "
  THEN SubSeq(content[r], 1, Len(content[r]) - 1)
  ELSE content[r]

\* getContent / getRawResourceContent: the raw content of the resource
getRawResourceContent(r) ==
  IF content[r] = Unavailable THEN << >> ELSE content[r]

\* thisismy.js getContent: readFileSync of a local file is not guarded and throws
getThrows(r) ==
  rev = "js" /\ ~ isUrl(r) /\ content[r] = Unavailable

\* handleChange: newHash !== oldHash
hashDiffers(newHash, oldHash) ==
  newHash # oldHash

\* askForReRun: a call with no changed resource returns before it prompts
asksOperator(changedResources) ==
  Len(changedResources) # 0

\* fetchURL of a page that held c when it answered: '' when the fetch failed
fetchURL(c) ==
  IF c = Unavailable THEN << >> ELSE c

\* what a fetch that was sent when the page held c can bring back for u: the
\* page as it was then or as it is when the response arrives
fetchResults(u, c) ==
  { fetchURL(c), getRawResourceContent(u) }

\* a set that forgets the digests of the other resources
setEntry_forgetsOthers(map, r, newHash) ==
  [ q \in DOMAIN map |-> IF q = r THEN newHash ELSE NoHash ]

\* prevContentMap.set(resource, newHash)
setEntry(map, r, newHash) ==
  [map EXCEPT ![r] = newHash]

\* a handleChange that calls askForReRun before it stores the new digest
handleChange_asksFirst(r, map, newContent) ==
  LET newHash == hashContent(newContent)
      oldHash == map[r]
  IN  IF hashDiffers(newHash, oldHash)
      THEN [map |-> setEntry(map, r, newHash), asks |-> asksOperator(<< r >>),
            atAsk |-> map[r]]
      ELSE [map |-> map, asks |-> FALSE, atAsk |-> NoHash]

\* handleChange once newContent has arrived: the digests are compared; on a
\* difference the new digest is set in the table and then askForReRun is called
\* with the one resource, which finds the table as the set left it
handleChange(r, map, newContent) ==
  LET newHash == hashContent(newContent)
      oldHash == map[r]
  IN  IF hashDiffers(newHash, oldHash)
      THEN LET set == setEntry(map, r, newHash)
           IN  [map |-> set, asks |-> asksOperator(<< r >>), atAsk |-> set[r]]
      ELSE [map |-> map, asks |-> FALSE, atAsk |-> NoHash]

\* an askForReRun that re-runs on every answer but n and x
answerOutcome_defaultRerun(ans) ==
  IF toLowerCase(ans) = << "n" >> THEN "skip"
  ELSE IF toLowerCase(ans) = << "x" >> THEN "exit"
  ELSE "rerun"

\* askForReRun: what the answer to a prompt leads to
answerOutcome(ans) ==
  IF toLowerCase(ans) = << "y" >> THEN "rerun"
  ELSE IF toLowerCase(ans) = << "x" >> THEN "exit"
  ELSE "skip"

\* the 'line' listener of run()/main(): line.trim().toLowerCase() === 'x'
lineIsExit(line) ==
  toLowerCase(trim(line)) = << "x" >>

\* index of the first URL of the list at or after position k, 0 when there is none
nextUrl(k) ==
  LET later == { i \in k..Len(finalResources) : isUrl(finalResources[i]) }
  IN  IF later = {} THEN 0 ELSE CHOOSE i \in later : \A j \in later : i <= j

indexOf(r) ==
  CHOOSE i \in 1..Len(finalResources) : finalResources[i] = r

\* the seeding loop of startWatching from position k on, up to its next await of
\* a URL fetch: a local resource is read, its digest stored and its watcher set
RECURSIVE seedFrom(_, _, _)
seedFrom(k, map, ws) ==
  IF k > Len(finalResources) \/ isUrl(finalResources[k])
  THEN [idx |-> k, map |-> map, watchers |-> ws, threw |-> FALSE]
  ELSE IF getThrows(finalResources[k])
  THEN [idx |-> k, map |-> map, watchers |-> ws, threw |-> TRUE]
  ELSE LET r == finalResources[k]
       IN  seedFrom(k + 1, [map EXCEPT ![r] = hashContent(getRawResourceContent(r))],
                    ws \cup {r})

\* the loop has stopped at s.idx: at a URL fetch, or past the end, where the
\* timer is set if the list holds a URL and run()/main() installs its listener,
\* or at a read that threw, which rejects run() and ends the process
seedArrive(s) ==
  /\ prevContentMap' = s.map
  /\ watchers' = s.watchers
  /\ IF s.threw
     THEN /\ seed' = [pc |-> "threw", idx |-> s.idx]
          /\ terminated' = TRUE
          /\ exitCode' = 1
          /\ UNCHANGED << timerArmed, timerInterval, mainListener >>
     ELSE IF s.idx > Len(finalResources)
     THEN /\ seed' = [pc |-> "done", idx |-> s.idx]
          /\ timerArmed' = (nextUrl(1) # 0)
          /\ timerInterval' = IF nextUrl(1) # 0 THEN setIntervalDelay(intervalSeconds) ELSE 0
          /\ mainListener' = TRUE
          /\ UNCHANGED << terminated, exitCode >>
     ELSE /\ seed' = [pc |-> "fetch", idx |-> s.idx]
          /\ UNCHANGED << timerArmed, timerInterval, mainListener, terminated, exitCode >>

\* a timer pass that gives up the remaining URLs once one of them was handled
continueTask_dropsRest(task) ==
  FreeTask

\* what a call does once its evaluation, prompt or re-run is over: a timer pass
\* goes on to its next URL, a handleChange call of a file event returns
continueTask(task) ==
  IF task.kind = "tick" /\ nextUrl(task.res + 1) # 0
  THEN [pc |-> "evalFetch", kind |-> "tick", res |-> nextUrl(task.res + 1), rr |-> 0,
        atAsk |-> NoHash, sent |-> content[finalResources[nextUrl(task.res + 1)]]]
  ELSE FreeTask

\* thisismy.js printFileContents: a local resource the re-run reads from position
\* k on, before its next await of a URL fetch, cannot be read; the exception
\* rejects the whole handleChange call, and the timer pass it belongs to
rerunThrows(k) ==
  \E i \in k..(IF nextUrl(k) # 0 THEN nextUrl(k) - 1 ELSE Len(finalResources)) :
    getThrows(finalResources[i])

\* a promise of a watcher or timer callback was rejected and nothing handles it:
\* the runtime either ends the process with status 1 or only warns
unhandledRejection(threw) ==
  \/ /\ threw
     /\ terminated' = TRUE
     /\ exitCode' = 1
  \/ UNCHANGED << terminated, exitCode >>

\* processFilesAndUrls of a re-run from position k of the list on: local reads
\* do not suspend it, a URL fetch does
rerunFrom(task, k) ==
  IF rerunThrows(k) THEN FreeTask
  ELSE IF nextUrl(k) # 0 THEN [task EXCEPT !.pc = "rerunFetch", !.rr = nextUrl(k)]
  ELSE continueTask(task)

\* askForReRun after promptUser has resolved with a line that is not an exit
afterAnswer(task, ans) ==
  IF answerOutcome(ans) = "rerun" THEN rerunFrom(task, 1) ELSE continueTask(task)

prompting == { t \in 1..MaxTasks : tasks[t].pc = "prompt" }

freeSlots == { t \in 1..MaxTasks : tasks[t].pc = "free" }

firstFree == CHOOSE t \in freeSlots : \A u \in freeSlots : t <= u

Lines ==
  { << "y" >>, << "Y" >>, << "x" >>, << "X" >>, << "n" >>, << " ", "x" >> }

\* the tiny and interval options of a watch session: tiny on and off with the
\* interval left out, and every --interval argument with tiny off
WatchOptions ==
  [tiny : BOOLEAN, interval : {I_absent}]
    \cup [tiny : {FALSE}, interval : IntervalArgs]

WatchLists ==
  { << T_url1, T_url2, T_atxt >>, << T_atxt, T_readme, T_url1 >> }

InitWatch ==
  /\ rev \in {"js", "v14"}
  /\ finalResources \in WatchLists
  /\ \E o \in WatchOptions :
       /\ o.interval # I_absent => finalResources = << T_url1, T_url2, T_atxt >>
       /\ options = [file |-> finalResources, greedy |-> FALSE, recursive |-> FALSE,
                     limit |-> A_no, tiny |-> o.tiny, watch |-> TRUE,
                     interval |-> o.interval, predefined |-> NoList]
  /\ ignoreFiles = [thisismyignore |-> NoFile, gitignore |-> NoFile]
  /\ pc = "watch"
  /\ resolved = finalResources
  /\ ignoredDueToSize = << >>
  /\ exitCode = -1
  /\ output = finalResources
  /\ content = [ r \in { finalResources[i] : i \in 1..Len(finalResources) }
                     |-> processedContent(r) ]
  /\ prevContentMap = [ r \in DOMAIN content |-> NoHash ]
  /\ watchers = {}
  /\ seed = [pc |-> "start", idx |-> 1]
  /\ timerArmed = FALSE
  /\ timerInterval = 0
  /\ mainListener = FALSE
  /\ pendingEvents = {}
  /\ tasks = [ t \in 1..MaxTasks |-> FreeTask ]
  /\ terminated = FALSE
  /\ nChanges = 0
  /\ nTicks = 0
  /\ nPrompts = 0
  /\ nReruns = 0
  /\ lastAnswer = NoAnswer

\* startWatching is called and runs to its first await
SeedStart ==
  /\ ~ terminated /\ seed.pc = "start"
  /\ seedArrive(seedFrom(1, prevContentMap, watchers))
  /\ UNCHANGED << rev, finalResources, options, ignoreFiles, pc, resolved, ignoredDueToSize, output,
                  content, pendingEvents, tasks, nChanges, nTicks, nPrompts, nReruns,
                  lastAnswer >>

\* the URL fetch the seeding loop awaits completes
SeedFetchDone ==
  /\ ~ terminated /\ seed.pc = "fetch"
  /\ LET u == finalResources[seed.idx]
         map == [prevContentMap EXCEPT ![u] = hashContent(getRawResourceContent(u))]
     IN  seedArrive(seedFrom(seed.idx + 1, map, watchers))
  /\ UNCHANGED << rev, finalResources, options, ignoreFiles, pc, resolved, ignoredDueToSize, output,
                  content, pendingEvents, tasks, nChanges, nTicks, nPrompts, nReruns,
                  lastAnswer >>

\* a file or a page gets new content; a watched file raises a change event
Modify(r, c) ==
  /\ ~ terminated /\ nChanges < MaxChanges
  /\ c # content[r]
  /\ content' = [content EXCEPT ![r] = c]
  /\ pendingEvents' = IF r \in watchers THEN pendingEvents \cup {r} ELSE pendingEvents
  /\ nChanges' = nChanges + 1
  /\ UNCHANGED << rev, finalResources, runVars, prevContentMap, watchers, seed, timerArmed, timerInterval,
                  mainListener, tasks, terminated, nTicks, nPrompts, nReruns, lastAnswer >>

\* the watcher callback of r: handleChange(r) reads the file, compares the digests
\* and, on a difference, stores the new digest and asks; it then awaits the answer
FileEvent(r) ==
  /\ ~ terminated /\ r \in pendingEvents
  /\ pendingEvents' = pendingEvents \ {r}
  /\ unhandledRejection(getThrows(r))
  /\ LET h == handleChange(r, prevContentMap, getRawResourceContent(r))
     IN  IF getThrows(r) THEN UNCHANGED << prevContentMap, tasks, nPrompts >>
         ELSE IF h.asks
         THEN /\ freeSlots # {}
              /\ prevContentMap' = h.map
              /\ tasks' = [tasks EXCEPT ![firstFree] =
                             [pc |-> "prompt", kind |-> "file", res |-> indexOf(r), rr |-> 0,
                              atAsk |-> h.atAsk, sent |-> << >>]]
              /\ nPrompts' = nPrompts + 1
         ELSE UNCHANGED << prevContentMap, tasks, nPrompts >>
  /\ UNCHANGED << rev, finalResources, options, ignoreFiles, pc, resolved, ignoredDueToSize, output,
                  content, watchers, seed, timerArmed, timerInterval, mainListener, nChanges, nTicks,
                  nReruns, lastAnswer >>

\* a timer that goes on firing after the process has exited
TickWithin_survivesExit(limit) ==
  /\ timerArmed /\ nTicks < limit
  /\ freeSlots # {}
  /\ tasks' = [tasks EXCEPT ![firstFree] =
                 [pc |-> "evalFetch", kind |-> "tick", res |-> nextUrl(1), rr |-> 0,
                  atAsk |-> NoHash, sent |-> content[finalResources[nextUrl(1)]]]]
  /\ nTicks' = nTicks + 1
  /\ UNCHANGED << rev, finalResources, runVars, content, prevContentMap, watchers, seed,
                  timerArmed, timerInterval, mainListener, pendingEvents, terminated, nChanges, nPrompts,
                  nReruns, lastAnswer >>

\* the setInterval callback: a pass over the URL resources starts and awaits the
\* fetch of the first one; the timer fires whatever earlier passes are doing
TickWithin(limit) ==
  /\ ~ terminated /\ timerArmed /\ nTicks < limit
  /\ freeSlots # {}
  /\ tasks' = [tasks EXCEPT ![firstFree] =
                 [pc |-> "evalFetch", kind |-> "tick", res |-> nextUrl(1), rr |-> 0,
                  atAsk |-> NoHash, sent |-> content[finalResources[nextUrl(1)]]]]
  /\ nTicks' = nTicks + 1
  /\ UNCHANGED << rev, finalResources, runVars, content, prevContentMap, watchers, seed,
                  timerArmed, timerInterval, mainListener, pendingEvents, terminated, nChanges, nPrompts,
                  nReruns, lastAnswer >>

Tick ==
  TickWithin(MaxTicks)

\* the fetch handleChange(u) awaits completes: compare, store and ask, or go on
EvalFetchDone(t) ==
  /\ ~ terminated /\ tasks[t].pc = "evalFetch"
  /\ \E newContent \in fetchResults(finalResources[tasks[t].res], tasks[t].sent) :
     LET u == finalResources[tasks[t].res]
         h == handleChange(u, prevContentMap, newContent)
     IN  IF h.asks
         THEN /\ prevContentMap' = h.map
              /\ tasks' = [tasks EXCEPT ![t].pc = "prompt", ![t].atAsk = h.atAsk,
                                        ![t].sent = << >>]
              /\ nPrompts' = nPrompts + 1
         ELSE /\ tasks' = [tasks EXCEPT ![t] = continueTask(tasks[t])]
              /\ UNCHANGED << prevContentMap, nPrompts >>
  /\ UNCHANGED << rev, finalResources, runVars, content, watchers, seed, timerArmed, timerInterval,
                  mainListener, pendingEvents, terminated, nChanges, nTicks, nReruns,
                  lastAnswer >>

\* the operator enters a line: every readline interface open on stdin receives it,
\* the listener of run()/main() first, then each prompt still awaiting its answer
TypeLine(line) ==
  /\ ~ terminated
  /\ prompting # {} \/ (mainListener /\ lineIsExit(line))
  /\ lastAnswer' = IF prompting # {} THEN [given |-> TRUE, line |-> line] ELSE lastAnswer
  /\ IF (mainListener /\ lineIsExit(line)) \/ (prompting # {} /\ answerOutcome(line) = "exit")
     THEN /\ terminated' = TRUE
          /\ exitCode' = 0
          /\ UNCHANGED << tasks, nReruns >>
     ELSE /\ tasks' = [ t \in 1..MaxTasks |->
                          IF t \in prompting THEN afterAnswer(tasks[t], line) ELSE tasks[t] ]
          /\ nReruns' = nReruns + (IF answerOutcome(line) = "rerun"
                                   THEN Cardinality(prompting) ELSE 0)
          /\ unhandledRejection(answerOutcome(line) = "rerun" /\ rerunThrows(1))
  /\ UNCHANGED << rev, finalResources, options, ignoreFiles, pc, resolved, ignoredDueToSize, output,
                  content, prevContentMap, watchers, seed, timerArmed, timerInterval, mainListener,
                  pendingEvents, nChanges, nTicks, nPrompts >>

\* a URL fetch of a re-run completes; the re-run goes on to its next await or ends
RerunFetchDone(t) ==
  /\ ~ terminated /\ tasks[t].pc = "rerunFetch"
  /\ tasks' = [tasks EXCEPT ![t] = rerunFrom(tasks[t], tasks[t].rr + 1)]
  /\ unhandledRejection(rerunThrows(tasks[t].rr + 1))
  /\ UNCHANGED << rev, finalResources, options, ignoreFiles, pc, resolved, ignoredDueToSize, output,
                  content, prevContentMap, watchers, seed, timerArmed, timerInterval, mainListener,
                  pendingEvents, nChanges, nTicks, nPrompts, nReruns, lastAnswer >>

NextWatch ==
  \/ SeedStart
  \/ SeedFetchDone
  \/ \E r \in DOMAIN content, c \in Contents \cup {Unavailable} : Modify(r, c)
  \/ \E r \in DOMAIN content : FileEvent(r)
  \/ Tick
  \/ \E t \in 1..MaxTasks : EvalFetchDone(t)
  \/ \E line \in Lines : TypeLine(line)
  \/ \E t \in 1..MaxTasks : RerunFetchDone(t)

SpecWatch == InitWatch /\ [][NextWatch]_vars

\* a watch session in which the timer fires twice: one page and one file, or two
\* pages
PollLists ==
  { << T_url1, T_atxt >>, << T_url1, T_url2 >> }

InitPoll ==
  /\ rev \in {"js", "v14"}
  /\ finalResources \in PollLists
  /\ options = [file |-> finalResources, greedy |-> FALSE, recursive |-> FALSE,
                limit |-> A_no, tiny |-> FALSE, watch |-> TRUE,
                interval |-> I_absent, predefined |-> NoList]
  /\ ignoreFiles = [thisismyignore |-> NoFile, gitignore |-> NoFile]
  /\ pc = "watch"
  /\ resolved = finalResources
  /\ ignoredDueToSize = << >>
  /\ exitCode = -1
  /\ output = finalResources
  /\ content = [ r \in { finalResources[i] : i \in 1..Len(finalResources) }
                     |-> processedContent(r) ]
  /\ prevContentMap = [ r \in DOMAIN content |-> NoHash ]
  /\ watchers = {}
  /\ seed = [pc |-> "start", idx |-> 1]
  /\ timerArmed = FALSE
  /\ timerInterval = 0
  /\ mainListener = FALSE
  /\ pendingEvents = {}
  /\ tasks = [ t \in 1..MaxTasks |-> FreeTask ]
  /\ terminated = FALSE
  /\ nChanges = 0
  /\ nTicks = 0
  /\ nPrompts = 0
  /\ nReruns = 0
  /\ lastAnswer = NoAnswer

PollTick ==
  TickWithin(MaxPollTicks)

NextPoll ==
  \/ SeedStart
  \/ SeedFetchDone
  \/ \E r \in DOMAIN content, c \in Contents \cup {Unavailable} : Modify(r, c)
  \/ \E r \in DOMAIN content : FileEvent(r)
  \/ PollTick
  \/ \E t \in 1..MaxTasks : EvalFetchDone(t)
  \/ \E line \in Lines : TypeLine(line)
  \/ \E t \in 1..MaxTasks : RerunFetchDone(t)

SpecPoll == InitPoll /\ [][NextPoll]_vars

\* the lines of an operator who answers every prompt and never chooses exit
AnswerLines ==
  { line \in Lines : ~ lineIsExit(line) /\ answerOutcome(line) # "exit" }

NextAnswered ==
  \/ SeedStart
  \/ SeedFetchDone
  \/ \E r \in DOMAIN content, c \in Contents \cup {Unavailable} : Modify(r, c)
  \/ \E r \in DOMAIN content : FileEvent(r)
  \/ Tick
  \/ \E t \in 1..MaxTasks : EvalFetchDone(t)
  \/ \E line \in AnswerLines : TypeLine(line)
  \/ \E t \in 1..MaxTasks : RerunFetchDone(t)

\* the event loop runs every callback that is ready, every fetch completes, and
\* the operator answers a prompt that is waiting
FairAnswered ==
  /\ WF_vars(SeedStart)
  /\ WF_vars(SeedFetchDone)
  /\ \A r \in UNION { { l[i] : i \in 1..Len(l) } : l \in WatchLists } :
        WF_vars(r \in DOMAIN content /\ FileEvent(r))
  /\ \A t \in 1..MaxTasks : WF_vars(EvalFetchDone(t))
  /\ \A t \in 1..MaxTasks : WF_vars(RerunFetchDone(t))
  /\ WF_vars(\E line \in AnswerLines : TypeLine(line))

SpecWatchAnswered == InitWatch /\ [][NextAnswered]_vars /\ FairAnswered

-----------------------------------------------------------------------------
(* Properties of resolution *)

elems(xs) == { xs[i] : i \in 1..Len(xs) }

noDuplicates(xs) ==
  \A i, j \in 1..Len(xs) : xs[i] = xs[j] => i = j

\* resolveResources has returned (a run with --predefined does not call it)
Resolved == pc # "resolve" /\ ~ options.predefined.given

\* main()/run() is past the size limit (thisismy.js has none)
Limited == pc \in {"process", "watch", "done"}

\* exactly one token, without wildcard, not a URL, naming an existing regular file
ExactReference ==
  /\ Len(options.file) = 1
  /\ ~ includes(options.file[1], S_star)
  /\ ~ isUrl(options.file[1])
  /\ lstatIsFile(options.file[1])

\* the list names the file f, in whatever form the path is written
containsFile(xs, f) ==
  \E i \in 1..Len(xs) : pathRelative(xs[i]) = pathRelative(f)

\* C1: the list resolveResources returns holds no normalized relative path and
\* no URL more than once, for every token list.
C1_NoResourceTwice ==
  Resolved => noDuplicates(resolved)

\* C2: a single token without wildcard that is not a URL and names an existing
\* file is in the resolved set when greedy is not set, whatever the ignore rules.
C2_ExactReferenceBypassesIgnore ==
  (Resolved /\ ExactReference /\ ~ options.greedy)
    => containsFile(resolved, options.file[1])

\* C3: an exact reference whose file is strictly larger than the configured
\* ceiling is absent from the final set and listed in the ignored-by-size list.
C3_ExactReferenceSizeLimited ==
  (Limited /\ ExactReference /\ ~ options.greedy /\ sizeLimitInfo.defined
     /\ statSize(options.file[1]) > sizeLimitInfo.bytes)
    => /\ ~ containsFile(finalResources, options.file[1])
       /\ \E i \in 1..Len(ignoredDueToSize) :
             pathRelative(ignoredDueToSize[i].filePath) = pathRelative(options.file[1])

\* the regular files the expanded patterns match, ignore rules aside
MatchedRegularFiles ==
  { Entries[i].path : i \in { k \in 1..Len(Entries) :
      /\ Entries[k].kind = "file"
      /\ \E t \in 1..Len(options.file) :
            /\ ~ isUrl(options.file[t])
            /\ LET pat == pathRelative(rewritePattern(options.file[t], options.recursive))
               IN  globSegs(splitSlash(pat), splitSlash(Entries[k].path), TRUE) } }

\* C4: in greedy mode every regular file the expanded patterns match is in the
\* resolved list: no default rule and no ignore-file rule removes a path.
C4_GreedyKeepsEveryMatch ==
  (Resolved /\ options.greedy) => MatchedRegularFiles \subseteq elems(resolved)

\* C5: every URL token is in the resource list exactly as supplied, after
\* resolution and after the size limit.
C5_UrlsPassThrough ==
  Resolved => \A t \in 1..Len(options.file) :
                 isUrl(options.file[t]) => options.file[t] \in elems(finalResources)

\* the ignore file of the claim: '*.log' followed by '!important.log'
NegationIgnoreFile ==
  ignoreFileLines(ignoreFiles) = << T_starlog, R_notimp >>

\* a pattern of the run matches both debug.log and important.log
MatchesBothLogs ==
  { P_debuglog, P_implog } \subseteq MatchedRegularFiles

\* C6: with the rules '*.log', '!important.log' and a pattern matching both
\* logs, debug.log is excluded and important.log is included.
C6_NegationReincludes ==
  (Resolved /\ ~ options.greedy /\ NegationIgnoreFile /\ MatchesBothLogs)
    => /\ P_debuglog \notin elems(resolved)
       /\ P_implog \in elems(resolved)

\* C7: with a ceiling of N bytes a local file is dropped if and only if its size
\* is strictly greater than N (N = 0 drops every non-empty file), without a
\* ceiling nothing is dropped, and a run that skipped files ends with status 0.
C7_SizeCeilingStrict ==
  (Limited /\ rev = "v14")
    => /\ \A i \in 1..Len(resolved) :
             LET f == resolved[i]
                 over == /\ sizeLimitInfo.defined
                         /\ existsSync(f)
                         /\ statSize(f) > sizeLimitInfo.bytes
             IN  (~ isUrl(f) /\ existsSync(f)) =>
                   /\ (f \in elems(finalResources)) <=> ~ over
                   /\ (\E k \in 1..Len(ignoredDueToSize) :
                          ignoredDueToSize[k].filePath = f) <=> over
       /\ (pc = "done" /\ ignoredDueToSize # << >>) => exitCode = 0

\* a finished run that kept a file of exactly the ceiling size and skipped a larger one
C7_Witness ==
  /\ pc = "done" /\ rev = "v14"
  /\ sizeLimitInfo.defined /\ sizeLimitInfo.bytes = 2
  /\ T_atxt \in elems(finalResources)
  /\ \E k \in 1..Len(ignoredDueToSize) : ignoredDueToSize[k].filePath = T_readme
  /\ exitCode = 0

-----------------------------------------------------------------------------
(* Properties of the watch session *)

\* C8: at most one confirmation prompt is outstanding at any time
C8_OnePromptOutstanding ==
  Cardinality(prompting) <= 1

\* the content of r is not the content whose digest is recorded for r
differs(r) ==
  hashContent(content[r]) # prevContentMap[r]

\* a prompt that presents r awaits its answer
presented(r) ==
  \E t \in prompting : finalResources[tasks[t].res] = r

\* a timer pass is under way that has not evaluated the URL u yet
passAhead(u) ==
  \E t \in 1..MaxTasks :
    /\ tasks[t].kind = "tick"
    /\ \/ tasks[t].res < indexOf(u)
       \/ tasks[t].res = indexOf(u) /\ tasks[t].pc = "evalFetch"

\* the evaluation of r is due: its change event is raised, or a pass will reach it
due(r) ==
  IF isUrl(r) THEN passAhead(r) ELSE r \in pendingEvents

\* C9: with an operator who answers every prompt and never chooses exit, a change
\* whose evaluation is due, be it while other prompts are pending, is eventually
\* presented in a prompt (unless the resource returns to its recorded content or
\* becomes unreadable first)
C9_ChangeEventuallyPresented ==
  \A r \in UNION { { l[i] : i \in 1..Len(l) } : l \in WatchLists } :
    (r \in DOMAIN content /\ due(r) /\ differs(r) /\ content[r] # Unavailable)
      ~> (r \in DOMAIN content /\
            (presented(r) \/ ~ differs(r) \/ content[r] = Unavailable))

\* a timer pass that waited at the prompt of the first URL was answered and now
\* presents the change of the second URL
C9_Witness ==
  /\ finalResources = << T_url1, T_url2, T_atxt >>
  /\ lastAnswer.given
  /\ nPrompts >= 2
  /\ \E t \in prompting : tasks[t].kind = "tick" /\ tasks[t].res = 2

isExitAnswer(a) ==
  a.given /\ a.line \in { << "x" >>, << "X" >> }

\* C10: an answer x or X to a prompt terminates the process with whatever is
\* pending, and from then on no prompt is issued and no re-run is started
C10_ExitTerminates ==
  [][ /\ isExitAnswer(lastAnswer') => terminated' /\ exitCode' = 0
      /\ ~ terminated /\ isExitAnswer(lastAnswer')
           => nPrompts' = nPrompts /\ nReruns' = nReruns
      /\ terminated => terminated' /\ tasks' = tasks ]_vars

\* X was answered while another call was still fetching
C10_Witness ==
  /\ terminated
  /\ lastAnswer = [given |-> TRUE, line |-> << "X" >>]
  /\ \E t \in 1..MaxTasks : tasks[t].pc = "evalFetch"
  /\ \E t \in 1..MaxTasks : tasks[t].pc = "prompt"

\* the step delivers a typed line to the prompts that await an answer (a step
\* that ends the process from a watcher callback, the seeding or a re-run in
\* progress is not one)
answerStep ==
  /\ prompting # {}
  /\ lastAnswer'.given
  /\ \/ \E t \in prompting : tasks'[t].pc # "prompt"
     \/ /\ terminated' /\ ~ terminated
        /\ pendingEvents' = pendingEvents
        /\ seed' = seed
        /\ \A t \in 1..MaxTasks : tasks[t].pc = "rerunFetch" => tasks'[t] = tasks[t]

\* C11: askForReRun does not prompt for an empty changed list; otherwise the line
\* it reads, compared without regard to letter case, leads to exactly one of
\* three outcomes: y re-runs processing, x exits the process, and any other line
\* does neither
C11_AskForReRunThreeOutcomes ==
  [][ /\ ~ asksOperator(<< >>)
      /\ \A t \in 1..MaxTasks :
           tasks'[t].pc = "prompt" /\ tasks[t].pc # "prompt"
             => asksOperator(<< finalResources[tasks'[t].res] >>)
      /\ answerStep =>
           LET line == lastAnswer'.line
           IN  /\ line \in { << "y" >>, << "Y" >> }
                    => /\ nReruns' = nReruns + Cardinality(prompting)
                       /\ terminated' => exitCode' = 1 /\ rerunThrows(1)
               /\ line \in { << "x" >>, << "X" >> }
                    => /\ terminated' /\ exitCode' = 0
                       /\ nReruns' = nReruns
               /\ line \notin { << "y" >>, << "Y" >>, << "x" >>, << "X" >> }
                    => /\ nReruns' = nReruns
                       /\ terminated' => mainListener /\ lineIsExit(line)
                       /\ ~ terminated' => \A t \in prompting : tasks'[t].pc # "rerunFetch"
    ]_vars

\* a prompt was answered n: the call returned, nothing was re-run, nothing exited
C11_Witness ==
  /\ lastAnswer = [given |-> TRUE, line |-> << "n" >>]
  /\ nPrompts = 1
  /\ nReruns = 0
  /\ prompting = {}
  /\ ~ terminated

\* the step is the evaluation of r by handleChange
evaluationStep(r) ==
  IF isUrl(r)
  THEN \E t \in 1..MaxTasks : /\ tasks[t].pc = "evalFetch"
                              /\ finalResources[tasks[t].res] = r
                              /\ tasks'[t] # tasks[t]
  ELSE r \in pendingEvents /\ r \notin pendingEvents'

\* what the evaluation of r that the step completes can have got: the content as
\* it is, or for a page the content it had when the fetch was sent
observed(r) ==
  {content[r]} \cup
    { tasks[t].sent : t \in { u \in 1..MaxTasks : /\ isUrl(r)
                                                  /\ tasks[u].pc = "evalFetch"
                                                  /\ finalResources[tasks[u].res] = r
                                                  /\ tasks'[u] # tasks[u] } }

\* the content whose digest is recorded for r is str
recordedContent(r, str) ==
  prevContentMap[r] = [sha256 |-> str]

\* C12: an evaluation reports no change when the content of the resource equals
\* the content last recorded, and reports a change when it differs in any
\* character, a trailing space included, with the tiny option set or not
C12_RawDigestComparison ==
  [][ \A r \in UNION { { l[i] : i \in 1..Len(l) } : l \in WatchLists } :
        r \in DOMAIN content /\ evaluationStep(r) /\ Unavailable \notin observed(r) =>
          \E c \in observed(r) :
            IF recordedContent(r, c)
            THEN nPrompts' = nPrompts /\ prevContentMap' = prevContentMap
            ELSE /\ nPrompts' = nPrompts + 1
                 /\ prevContentMap'[r] = [sha256 |-> c]
                 /\ \E t \in 1..MaxTasks : /\ tasks'[t].pc = "prompt"
                                           /\ tasks[t].pc # "prompt"
                                           /\ finalResources[tasks'[t].res] = r
    ]_vars

\* with the tiny option set, a trailing space added to a file was reported
C12_Witness ==
  /\ options.tiny
  /\ content[T_atxt] = C_hello_sp
  /\ recordedContent(T_atxt, C_hello_sp)
  /\ presented(T_atxt)

\* C13: an evaluation whose content fetch fails reports no change and leaves the
\* stored fingerprint of the resource as it was
C13_FailedFetchKeepsFingerprint ==
  [][ \A r \in UNION { { l[i] : i \in 1..Len(l) } : l \in WatchLists } :
        r \in DOMAIN content /\ evaluationStep(r) /\ observed(r) = {Unavailable}
          => /\ nPrompts' = nPrompts
             /\ prevContentMap'[r] = prevContentMap[r]
    ]_vars

\* C14: a failure on one resource never aborts the handling of the others: no
\* read or fetch failure ends the session, and once seeding is over every local
\* resource of the list is watched
C14_FailureIsolated ==
  /\ ~ (terminated /\ exitCode = 1)
  /\ seed.pc # "threw"
  /\ seed.pc = "done" =>
       \A i \in 1..Len(finalResources) :
         ~ isUrl(finalResources[i]) => finalResources[i] \in watchers

\* C15: every entry of the final resource list that is not a URL names a regular
\* file: no directory and no path that cannot be stat'ed is in the list
C15_OnlyRegularFiles ==
  Limited =>
    \A i \in 1..Len(finalResources) :
      ~ isUrl(finalResources[i]) => lstatIsFile(finalResources[i])

\* the ignore files as a resolution that reads at most one of them sees them
onlyIgnoreFile(files) ==
  IF files.thisismyignore.exists THEN [files EXCEPT !.gitignore = NoFile] ELSE files

\* C16: ignore rules come from at most one ignore file: .thisismyignore when it
\* exists, and then .gitignore is not read; otherwise .gitignore when it exists;
\* with neither, resolution uses the default rules only
C16_IgnoreFilePriority ==
  Resolved =>
    /\ resolved = IF rev = "js"
                  THEN resolveResources_js(options, onlyIgnoreFile(ignoreFiles))
                  ELSE resolveResources_v14(options, onlyIgnoreFile(ignoreFiles))
    /\ options.file = << T_star >> /\ ~ options.greedy /\ ~ options.recursive =>
         /\ ignoreFiles.thisismyignore.exists
              => P_debuglog \in elems(resolved) /\ T_readme \notin elems(resolved)
         /\ ~ ignoreFiles.thisismyignore.exists /\ ignoreFiles.gitignore.exists
              => P_debuglog \notin elems(resolved) /\ T_readme \in elems(resolved)
         /\ ~ ignoreFiles.thisismyignore.exists /\ ~ ignoreFiles.gitignore.exists
              => /\ P_debuglog \in elems(resolved) /\ T_readme \in elems(resolved)
                 /\ P_png \notin elems(resolved) /\ P_env \notin elems(resolved)

\* both ignore files exist and the rule of .gitignore did not remove debug.log
C16_Witness ==
  /\ Resolved
  /\ options.file = << T_star >> /\ ~ options.greedy
  /\ ignoreFiles.thisismyignore.exists /\ ignoreFiles.gitignore.exists
  /\ P_debuglog \in elems(resolved)
  /\ T_readme \notin elems(resolved)

\* the ceiling each --limit argument stands for
expectedLimit(arg) ==
  CASE arg \in { A_no, A_NO } -> [defined |-> FALSE, bytes |-> 0]
    [] arg = A_0 -> [defined |-> TRUE, bytes |-> 0]
    [] arg = A_2bytes -> [defined |-> TRUE, bytes |-> 2]
    [] arg = A_1kb -> [defined |-> TRUE, bytes |-> 1024]
    [] arg = A_2KB -> [defined |-> TRUE, bytes |-> 2 * 1024]
    [] arg \in { A_1mb, NoArg, A_x, A_2gb, A_sp1kb } -> [defined |-> TRUE, bytes |-> 1024 * 1024]
    [] arg = A_3 -> [defined |-> TRUE, bytes |-> 3 * 1024 * 1024]

\* C17: parseSizeLimit never aborts the run: no in any letter case is no ceiling,
\* <number>kb is number*1024 bytes, <number>mb (or a number alone) is
\* number*1024*1024 bytes, an absent or malformed argument is the default of
\* 1 MB, and the run goes on with that ceiling
C17_ParseSizeLimit ==
  (rev = "v14" /\ Limited) =>
    /\ sizeLimitInfo = expectedLimit(options.limit)
    /\ LET r == applySizeLimit(resolved, expectedLimit(options.limit))
       IN  /\ finalResources = r.finalResourcesFiltered
           /\ ignoredDueToSize = r.ignoredDueToSize
    /\ pc = "done" => exitCode = 0

\* a run with a malformed --limit argument went on and processed its files
C17_Witness ==
  /\ rev = "v14" /\ pc = "done" /\ exitCode = 0
  /\ options.limit = A_2gb
  /\ finalResources # << >>
  /\ ignoredDueToSize = << >>

expectedIntervalMs(arg) ==
  IF arg.kind # "number" \/ arg.halves <= 0 THEN 5 * 60000
  ELSE IF arg.halves >= HugeHalves THEN TIMEOUT_MAX
  ELSE IF arg.halves >= 2 THEN arg.halves * 30000
  ELSE timerInterval

\* C19: once the polling timer is set, its period is at least one minute: five
\* minutes for an interval that is absent, zero, negative or not a number, and
\* the supplied number of minutes for every value of 1 or more
C19_IntervalAtLeastOneMinute ==
  timerArmed => (timerInterval >= 60000
                 /\ timerInterval = expectedIntervalMs(options.interval))

\* the same without the values whose milliseconds exceed what a timer delay holds
C19_IntervalBelowTimerMax ==
  (timerArmed /\ options.interval.halves < HugeHalves)
    => (timerInterval >= 60000 /\ timerInterval = expectedIntervalMs(options.interval))
\* a run with --predefined whose list file is readable and has a valid line
validList ==
  /\ options.predefined.given
  /\ options.predefined.readable
  /\ \E i \in 1..Len(options.predefined.lines) :
       LET x == trim(options.predefined.lines[i])
       IN  x # << >> /\ Head(x) # "#"

\* the valid lines of the list file, trimmed, each once
listed ==
  setOrder(SelectSeq([ i \in 1..Len(options.predefined.lines) |->
                         trim(options.predefined.lines[i]) ],
                     LAMBDA x : x # << >> /\ Head(x) # "#"))

-----------------------------------------------------------------------------
(* Seeding, the fingerprint table, the timer and the subscriptions *)

\* the seeding loop of startWatching has not yet handled every resource
seeding == seed.pc \in {"start", "fetch"}

WatchedResources == UNION { { l[i] : i \in 1..Len(l) } : l \in WatchLists }

\* the digests of what the evaluation of r that the step completes can have got
observedDigests(r) ==
  { [sha256 |-> IF c = Unavailable THEN << >> ELSE c] : c \in observed(r) }

\* the step is one of the seeding loop
seedingStep == seed' # seed

\* the step issues a prompt for r in call t
promptIssued(t, r) ==
  /\ tasks'[t].pc = "prompt" /\ tasks[t].pc # "prompt"
  /\ finalResources[tasks'[t].res] = r

\* the table is written only by seeding and by an evaluation whose digest
\* differs, and an evaluation whose digest is the stored one changes nothing
writtenOnlyOnChange(r) ==
  /\ prevContentMap'[r] # prevContentMap[r]
       => \/ seedingStep
          \/ evaluationStep(r) /\ observedDigests(r) # {prevContentMap[r]}
  /\ (evaluationStep(r) /\ observedDigests(r) = {prevContentMap[r]})
       => (prevContentMap' = prevContentMap /\ nPrompts' = nPrompts
           /\ \A t \in 1..MaxTasks : ~ promptIssued(t, r))

\* C22: the fingerprint table is written only by seeding and by an evaluation
\* that detected a change; an evaluation with an equal digest leaves the table and
\* the prompts alone; and a detected change is still unrecorded when it is
\* reported to askForReRun, the entry being updated after that
C22_UpdatedAfterReport ==
  [][ \A r \in WatchedResources : r \in DOMAIN content =>
        /\ writtenOnlyOnChange(r)
        /\ \A t \in 1..MaxTasks : promptIssued(t, r)
             => tasks'[t].atAsk = prevContentMap[r]
    ]_vars

\* C22 as it holds: the same, with the entry updated once, to the new digest,
\* before the change is reported to askForReRun
C22_UpdatedBeforeReport ==
  [][ \A r \in WatchedResources : r \in DOMAIN content =>
        /\ writtenOnlyOnChange(r)
        /\ \A t \in 1..MaxTasks : promptIssued(t, r)
             => /\ prevContentMap'[r] \in observedDigests(r)
                /\ prevContentMap'[r] # prevContentMap[r]
                /\ tasks'[t].atAsk = prevContentMap'[r]
                /\ \A q \in DOMAIN content \ {r} : prevContentMap'[q] = prevContentMap[q]
    ]_vars

\* the change of a.txt is being asked about and its new digest is in the table
C22_Witness ==
  /\ content[T_atxt] = C_hello_sp
  /\ \E t \in prompting : /\ finalResources[tasks[t].res] = T_atxt
                          /\ tasks[t].atAsk = [sha256 |-> C_hello_sp]
  /\ prevContentMap[T_atxt] = [sha256 |-> C_hello_sp]

\* C23: one content change of a resource produces at most one prompt, whatever
\* evaluations run while a prompt is pending or overlap each other: the prompts
\* issued never outnumber the content changes made
C23_OnePromptPerChange ==
  nPrompts <= nChanges

\* the files of the working directory in lexicographic (code unit) order
LexOrder ==
  << P_env, T_readme, T_atxt, P_debuglog, P_implog, P_png, P_srcfjs >>

\* the place of a path in that order, 0 for a path that is none of them
lexRank(p) ==
  IF \E i \in 1..Len(LexOrder) : LexOrder[i] = p
  THEN CHOOSE i \in 1..Len(LexOrder) : LexOrder[i] = p
  ELSE 0

\* C24: the resolved list holds the URL tokens first, in the order they were
\* supplied, and after them the local paths in lexicographically sorted order
C24_UrlsFirstThenSorted ==
  Resolved =>
    /\ SelectSeq(resolved, isUrl) = setOrder(SelectSeq(options.file, isUrl))
    /\ \A i, j \in 1..Len(resolved) : i < j =>
          /\ isUrl(resolved[j]) => isUrl(resolved[i])
          /\ (~ isUrl(resolved[i]) /\ ~ isUrl(resolved[j]))
               => lexRank(resolved[i]) < lexRank(resolved[j])

S_slashslash == << "/", "/" >>

\* C25: with --recursive a path token without '**' is rewritten once: './' and
\* the rest becomes './**/' and the rest, any other token becomes '**/' and the
\* token; a token with '**' stays as it is; the result holds no doubled path
\* separator, and rewriting the result again changes nothing
C25_RecursiveRewrite ==
  (Resolved /\ options.recursive) =>
    \A i \in 1..Len(options.file) :
      LET token == options.file[i]
          pattern == rewritePattern(token, options.recursive)
      IN  ~ isUrl(token) =>
            /\ includes(token, S_starstar) => pattern = token
            /\ (~ includes(token, S_starstar) /\ startsWith(token, S_dotslash))
                 => pattern = S_dotstarstarslash \o slice(token, 2)
            /\ (~ includes(token, S_starstar) /\ ~ startsWith(token, S_dotslash))
                 => pattern = S_starstarslash \o token
            /\ ~ includes(pattern, S_slashslash)
            /\ rewritePattern(pattern, options.recursive) = pattern

\* C25 for the tokens that do not start with a path separator
C25_RelativeTokens ==
  (Resolved /\ options.recursive) =>
    \A i \in 1..Len(options.file) :
      LET token == options.file[i]
          pattern == rewritePattern(token, options.recursive)
      IN  (~ isUrl(token) /\ ~ startsWith(token, S_slash)) =>
            /\ includes(token, S_starstar) => pattern = token
            /\ (~ includes(token, S_starstar) /\ startsWith(token, S_dotslash))
                 => pattern = S_dotstarstarslash \o slice(token, 2)
            /\ (~ includes(token, S_starstar) /\ ~ startsWith(token, S_dotslash))
                 => pattern = S_starstarslash \o token
            /\ ~ includes(pattern, S_slashslash)
            /\ rewritePattern(pattern, options.recursive) = pattern

\* C26: once the session is terminated, the subscriptions and the timer are gone
\* with the process: no file event and no timer tick starts an evaluation, no
\* prompt is issued and no fingerprint is written any more
C26_NothingAfterExit ==
  [][ terminated => UNCHANGED << tasks, prevContentMap, pendingEvents, nTicks, nPrompts,
                                nReruns, seed, terminated, exitCode >>
    ]_vars

\* the operator has exited while a file event was waiting and the timer, set for
\* a URL, had not fired yet
C26_Witness ==
  /\ terminated /\ exitCode = 0
  /\ watchers # {} /\ timerArmed
  /\ pendingEvents # {}
  /\ nTicks = 0

localResources == { r \in elems(finalResources) : ~ isUrl(r) }

rerunStep ==
  \E t \in 1..MaxTasks : tasks[t].pc = "rerunFetch" /\ tasks'[t] # tasks[t]

\* C28: the evaluation of a resource writes at most the entry of that resource in
\* the fingerprint table; an answer to a prompt and a re-run write none; and the
\* watched list stays as it was when watch mode started
C28_OnlyOwnEntryChanges ==
  [][ /\ finalResources' = finalResources
      /\ DOMAIN prevContentMap' = DOMAIN prevContentMap
      /\ \A r \in WatchedResources : (r \in DOMAIN content /\ evaluationStep(r))
            => \A q \in DOMAIN prevContentMap \ {r} : prevContentMap'[q] = prevContentMap[q]
      /\ (answerStep \/ rerunStep) => prevContentMap' = prevContentMap
    ]_vars

\* README.md was evaluated as changed and a re-run was made, and a.txt and the
\* page still have the fingerprints of their seeding
C28_Witness ==
  /\ finalResources = << T_atxt, T_readme, T_url1 >>
  /\ nReruns = 1
  /\ prevContentMap[T_readme] = [sha256 |-> C_hello_sp]
  /\ prevContentMap[T_atxt] = [sha256 |-> C_hello]
  /\ prevContentMap[T_url1] = [sha256 |-> C_hello]
  /\ \A t \in 1..MaxTasks : tasks[t] = FreeTask

\* the polling passes in progress: the timer callbacks that have not yet run out
\* of URL resources, whatever they await
passesInProgress ==
  { t \in 1..MaxTasks : tasks[t].kind = "tick" }

\* C29: at most one polling pass over the URL resources is in progress at any time
C29_OnePollingPass ==
  Cardinality(passesInProgress) <= 1

\* C30: the fingerprint that seeding stores for a resource is the digest of the
\* content the one-shot processing emitted for it, so that a modification made
\* after the output was produced differs from the baseline
C30_BaselineIsEmittedContent ==
  [][ \A r \in WatchedResources :
        (r \in DOMAIN content /\ seedingStep /\ prevContentMap'[r] # prevContentMap[r])
          => prevContentMap'[r] = hashContent(processedContent(r))
    ]_vars
====
